---- MODULE Spec2Model ----
(***************************************************************************)
(* A model of the MCP multiplexing gateway: the Relay (src/src/relay.rs),  *)
(* its ConnectionPool, and the SSE session bridge (src/src/sse.rs).        *)
(*                                                                         *)
(* Strings that the code parses or formats (target names, tool and prompt  *)
(* identifiers) are sequences of one-character strings, so that            *)
(* format!("{}:{}") and split_once(':') are computed, not assumed.         *)
(***************************************************************************)
EXTENDS Integers, Sequences, FiniteSets, TLC

\* ------------------------------------------------------------------------
\* Universe of the model
\* ------------------------------------------------------------------------

\* Target names the xDS collaborator may register.  A name is any String:
\* nothing in the code keeps ':' out of it.
TargetNames == { <<"a">>, <<"a", ":", "b">> }

\* What each upstream exposes (the upstream's own, un-namespaced identifiers).
UpstreamTools(n) == IF n = <<"a">> THEN << <<"h">>, <<"g">> >> ELSE << <<"c">> >>

UpstreamPrompts(n) == IF n = <<"a">> THEN << <<"p">> >> ELSE << <<"q">> >>

UpstreamResources(n) == IF n = <<"a">> THEN << <<"u">> >> ELSE << <<"v">>, <<"w">> >>

UpstreamTemplates(n) == IF n = <<"a">> THEN << <<"t">> >> ELSE << >>

\* Identifiers a client may put in call_tool / get_prompt, and URIs in
\* read_resource.
ReqNames == { <<"a", ":", "h">>, <<"h">>, <<"a", ":", "b", ":", "c">> }
ReqUris  == { <<"a">>, <<"u">> }
ReqArgs  == { "x", "y" }

\* The most connections one pool dials for one target name in a run.
MaxDials == 2

\* SSE connections (GET /sse) and concurrent POST handlers of a run, the ids
\* session_id() may return, and the most POSTs a run receives.
Gets == { 1, 2 }
Posts == { 1, 2 }
SessionIds == { "s1", "s2" }
MaxPosts == 3

\* tokio::sync::mpsc::channel(64), sse.rs:164-165.
Capacity == 64

\* Request tasks of the MCP server loops, and the Relays (one per SSE session,
\* sse.rs:177, each with a pool of its own, relay.rs:30) they belong to:
\* tasks 1 and 2 serve concurrent requests of one session, task 3 a request of
\* another session.
Tasks  == { 1, 2, 3 }
Relays == { 1, 2 }
RelayOf(t) == IF t = 3 THEN 2 ELSE 1

\* The identity each Relay was constructed with.
IdentityOf(r) == IF r = 1 THEN "u1" ELSE "anon"

ListOps   == { "list_tools", "list_prompts", "list_resources", "list_resource_templates" }
SingleOps == { "call_tool", "get_prompt", "read_resource" }

\* Option<T>: None is the empty sequence, Some(x) a sequence of length one.
None == << >>
Some(x) == << x >>

\* The next_cursor an upstream may put in its reply to a list call.
UpstreamCursors == { None, Some("k") }

VARIABLES
    targets,     \* XdsStore.targets: the set of registered target names
    policies,    \* XdsStore.policies: the RBAC rule set
    by_name,     \* by_name[r][n]: ConnectionPool.by_name of Relay r; 0 = absent, k = the k-th connection dialed for n
    ndials,      \* ndials[r][n]: connections dialed so far by Relay r's pool for n
    pc,          \* pc[t]: where task t's handler is
    req,         \* req[t]: the request task t serves
    loc,         \* loc[t]: the handler's locals
    result,      \* result[t]: what the client gets for the request
    io,          \* io[t]: upstream I/O performed for the request
    emitted,     \* the tool identifiers that list_tools responses have carried so far
    warm,        \* warm[r]: the list_tools calls of Relay r's session since the registry last changed
    txs,         \* App.txs: txs[id] is the SSE connection whose inbound sender is stored under id; 0 = no entry
    allocated,   \* the session ids session_id() has returned so far
    sse,         \* sse[g]: the session of SSE connection g (worker, client stream, the two queues)
    post,        \* post[p]: the POST handler p
    nposts       \* POSTs received so far

relayVars == << targets, policies, by_name, ndials, pc, req, loc, result, io, emitted, warm >>
sseVars == << txs, allocated, sse, post, nposts >>
vars == << targets, policies, by_name, ndials, pc, req, loc, result, io, emitted, warm,
           txs, allocated, sse, post, nposts >>

\* ------------------------------------------------------------------------
\* Pure functions
\* ------------------------------------------------------------------------

Range(s) == { s[i] : i \in 1..Len(s) }

\* str::split_once(':'): split at the FIRST ':'; None when there is none.
split_once(s) ==
    IF \E i \in 1..Len(s) : s[i] = ":"
    THEN LET i == CHOOSE k \in 1..Len(s) : s[k] = ":" /\ \A j \in 1..(k - 1) : s[j] # ":"
         IN  Some(<< SubSeq(s, 1, i - 1), SubSeq(s, i + 1, Len(s)) >>)
    ELSE None

\* format!("{}:{}", name, tool.name)
format_name(name, tool) == name \o << ":" >> \o tool

\* The relay's renaming of one upstream's tools (relay.rs:224-232).
RECURSIVE Namespaced(_, _)
Namespaced(name, ts) ==
    IF ts = << >> THEN << >>
    ELSE << format_name(name, Head(ts)) >> \o Namespaced(name, Tail(ts))

\* The per-target replies joined last target first.
RECURSIVE FlattenBackwards(_, _)
FlattenBackwards(snap, replies) ==
    IF snap = << >> THEN << >>
    ELSE FlattenBackwards(Tail(snap), replies) \o replies[Head(snap)]

\* Iterator::flatten over the per-target replies, in the order of snap.
RECURSIVE Flatten(_, _)
Flatten(snap, replies) ==
    IF snap = << >> THEN << >>
    ELSE replies[Head(snap)] \o Flatten(Tail(snap), replies)

\* All orders in which a map's iteration may yield the set S.
Orders(S) ==
    { s \in [1..Cardinality(S) -> S] : \A i, j \in 1..Cardinality(S) : s[i] = s[j] => i = j }

\* rbac: rules are allow rules over (kind, id, identity); None / "*" are
\* wildcards; no matching rule means deny.
Rule(kind, id, who) == [kind |-> kind, id |-> id, who |-> who]

validate(resource, id) ==
    \E r \in policies :
        /\ r.kind = resource.kind
        /\ (r.id = None \/ r.id = Some(resource.id))
        /\ (r.who = "*" \/ r.who = id)

PolicySets ==
    { {},
      { Rule("Tool", None, "u1"), Rule("Prompt", None, "*"), Rule("Resource", None, "*") } }

\* What the upstream answers to a list call of the given operation.
UpstreamList(op, n) ==
    IF op = "list_tools" THEN UpstreamTools(n)
    ELSE IF op = "list_prompts" THEN UpstreamPrompts(n)
    ELSE IF op = "list_resources" THEN UpstreamResources(n)
    ELSE UpstreamTemplates(n)

\* ------------------------------------------------------------------------
\* Results and locals
\* ------------------------------------------------------------------------

NoResult == [kind |-> "none"]
Ok(v) == [kind |-> "ok", value |-> v]
\* Ok(List...Result { <entries>: v, next_cursor: None }), relay.rs:78-85,
\* 137-144, 168-175, 234-237.
Listed(v) == [kind |-> "ok", value |-> v, next_cursor |-> None]
Err(code, msg) == [kind |-> "err", code |-> code, msg |-> msg]
\* A panic of the task serving the request, at the unwrap() that raised it:
\* "split" (relay.rs:192, 255), "get" (relay.rs:102, 194, 257, 326),
\* "connect" (relay.rs:298, 354), "call" (relay.rs:73, 109, 132, 163, 200,
\* 222, 263).
Panicked(at) == [kind |-> "panic", at |-> at]

NoReq == [op |-> "none", name |-> << >>, args |-> "x"]

\* snap: the names the handler asks the pool for; get / conn: each get
\* future's position and connection; rd: the names whose get future holds the
\* by_name read guard; held: the names whose upstream handle the handler has
\* locked; cursors: the names whose list reply carried a next_cursor.
NoLoc == [snap |-> << >>, get |-> << >>, conn |-> << >>, upname |-> << >>,
          i |-> 0, tools |-> << >>, replies |-> << >>,
          rd |-> {}, held |-> {}, cursors |-> {}]

\* Locals of a handler that is about to run pool.get for every name in snap.
Getting(snap, upname) ==
    [snap |-> snap,
     get |-> [n \in Range(snap) |-> "init"],
     conn |-> [n \in Range(snap) |-> 0],
     upname |-> upname,
     i |-> 0, tools |-> << >>, replies |-> << >>,
     rd |-> {}, held |-> {}, cursors |-> {}]

ByName(r, n) == IF n \in TargetNames THEN by_name[r][n] ELSE 0

DialEvent(n) == [kind |-> "dial", target |-> n]
CallEvent(n, k, method, name, args) ==
    [kind |-> "call", target |-> n, conn |-> k, method |-> method, name |-> name, args |-> args]

NoSession == [st |-> "none", id |-> "", client |-> "none", inbound |-> 0, outbound |-> 0]
NoPost == [pc |-> "idle", id |-> "", tx |-> 0, status |-> 0]

\* No list_tools has run since the registry last changed.
NoWarm == [st |-> "none", value |-> << >>, base |-> << >>, cold |-> {}]

Init ==
    /\ targets \in SUBSET TargetNames
    /\ policies \in PolicySets
    /\ by_name = [r \in Relays |-> [n \in TargetNames |-> 0]]
    /\ ndials = [r \in Relays |-> [n \in TargetNames |-> 0]]
    /\ pc = [t \in Tasks |-> "idle"]
    /\ req = [t \in Tasks |-> NoReq]
    /\ loc = [t \in Tasks |-> NoLoc]
    /\ result = [t \in Tasks |-> NoResult]
    /\ io = [t \in Tasks |-> {}]
    /\ emitted = {}
    /\ warm = [r \in Relays |-> NoWarm]
    /\ txs = [id \in SessionIds |-> 0]
    /\ allocated = {}
    /\ sse = [g \in Gets |-> NoSession]
    /\ post = [p \in Posts |-> NoPost]
    /\ nposts = 0

\* ------------------------------------------------------------------------
\* How a handler ends or goes on
\* ------------------------------------------------------------------------

\* The handler returns res to the MCP server loop, its locals being l.
Return(t, rq, res, l) ==
    /\ pc' = [pc EXCEPT ![t] = "done"]
    /\ req' = [req EXCEPT ![t] = rq]
    /\ result' = [result EXCEPT ![t] = res]
    /\ loc' = [loc EXCEPT ![t] = l]

\* An unwrap() of None / Err: the task serving the request panics, and no
\* response is produced for the request.
Panic(t, rq, at, l) == Return(t, rq, Panicked(at), l)

\* The handler goes on to pool.get for the names of snap.
Dispatch(t, rq, snap, upname) ==
    /\ pc' = [pc EXCEPT ![t] = "get"]
    /\ req' = [req EXCEPT ![t] = rq]
    /\ result' = [result EXCEPT ![t] = NoResult]
    /\ loc' = [loc EXCEPT ![t] = Getting(snap, upname)]

Request(op, name, args) == [op |-> op, name |-> name, args |-> args]

\* The record of a session's list_tools calls: "first" while the first call
\* since the last registry change is running, with the pool's dial counts
\* (base) and the registered names it had no connection for (cold) when the
\* call began; "listed" once that call has returned value.
Started(w, r) ==
    IF w.st = "none"
    THEN [st |-> "first", value |-> << >>, base |-> ndials[r],
          cold |-> { n \in targets : by_name[r][n] = 0 }]
    ELSE w

Completed(w, v) == IF w.st = "first" THEN [w EXCEPT !.st = "listed", !.value = v] ELSE w

Failed(w) == IF w.st = "first" THEN NoWarm ELSE w

\* Task t begins a list_tools (and, with nothing registered, ends it).
ListStarted(t) ==
    warm' = [warm EXCEPT ![RelayOf(t)] =
                IF pc'[t] = "done"
                THEN Completed(Started(@, RelayOf(t)), result'[t].value)
                ELSE Started(@, RelayOf(t))]

\* A step of task t's handler: a list_tools that ends in it is recorded.
ListEnded(t) ==
    warm' = [warm EXCEPT ![RelayOf(t)] =
                IF req[t].op = "list_tools" /\ pc'[t] = "done"
                THEN IF result'[t].kind = "ok" THEN Completed(@, result'[t].value)
                     ELSE Failed(@)
                ELSE @]


\* ------------------------------------------------------------------------
\* Relay: the handlers up to their first pool.get
\* ------------------------------------------------------------------------

\* call_tool with the RBAC check left out.
call_tool_unchecked(t) ==
    /\ pc[t] = "idle"
    /\ \E name \in ReqNames, a \in ReqArgs :
        LET rq == Request("call_tool", name, a) IN
        IF split_once(name) = None
        THEN Panic(t, rq, "split", NoLoc)
        ELSE Dispatch(t, rq, << split_once(name)[1][1] >>, split_once(name)[1][2])
    /\ io' = [io EXCEPT ![t] = {}]
    /\ UNCHANGED << targets, policies, by_name, ndials, emitted, warm >>
    /\ UNCHANGED sseVars

\* call_tool asking the policy engine about the first session's identity,
\* whichever session the request belongs to.
call_tool_first_identity(t) ==
    /\ pc[t] = "idle"
    /\ \E name \in ReqNames, a \in ReqArgs :
        LET rq == Request("call_tool", name, a) IN
        IF ~validate([kind |-> "Tool", id |-> name], IdentityOf(1))
        THEN Return(t, rq, Err("invalid_request", "not allowed"), NoLoc)
        ELSE IF split_once(name) = None
        THEN Panic(t, rq, "split", NoLoc)
        ELSE Dispatch(t, rq, << split_once(name)[1][1] >>, split_once(name)[1][2])
    /\ io' = [io EXCEPT ![t] = {}]
    /\ UNCHANGED << targets, policies, by_name, ndials, emitted, warm >>
    /\ UNCHANGED sseVars

\* Relay::call_tool, relay.rs:245-257: validate, split_once, then pool.get.
call_tool(t) ==
    /\ pc[t] = "idle"
    /\ \E name \in ReqNames, a \in ReqArgs :
        LET rq == Request("call_tool", name, a) IN
        IF ~validate([kind |-> "Tool", id |-> name], IdentityOf(RelayOf(t)))
        THEN Return(t, rq, Err("invalid_request", "not allowed"), NoLoc)
        ELSE IF split_once(name) = None
        THEN Panic(t, rq, "split", NoLoc)
        ELSE Dispatch(t, rq, << split_once(name)[1][1] >>, split_once(name)[1][2])
    /\ io' = [io EXCEPT ![t] = {}]
    /\ UNCHANGED << targets, policies, by_name, ndials, emitted, warm >>
    /\ UNCHANGED sseVars

\* get_prompt splitting the identifier before it asks the policy engine.
get_prompt_split_first(t) ==
    /\ pc[t] = "idle"
    /\ \E name \in ReqNames, a \in ReqArgs :
        LET rq == Request("get_prompt", name, a) IN
        IF split_once(name) = None
        THEN Panic(t, rq, "split", NoLoc)
        ELSE IF ~validate([kind |-> "Prompt", id |-> name], IdentityOf(RelayOf(t)))
        THEN Return(t, rq, Err("invalid_request", "not allowed"), NoLoc)
        ELSE Dispatch(t, rq, << split_once(name)[1][1] >>, split_once(name)[1][2])
    /\ io' = [io EXCEPT ![t] = {}]
    /\ UNCHANGED << targets, policies, by_name, ndials, emitted, warm >>
    /\ UNCHANGED sseVars

\* Relay::get_prompt, relay.rs:183-194.
get_prompt(t) ==
    /\ pc[t] = "idle"
    /\ \E name \in ReqNames, a \in ReqArgs :
        LET rq == Request("get_prompt", name, a) IN
        IF ~validate([kind |-> "Prompt", id |-> name], IdentityOf(RelayOf(t)))
        THEN Return(t, rq, Err("invalid_request", "not allowed"), NoLoc)
        ELSE IF split_once(name) = None
        THEN Panic(t, rq, "split", NoLoc)
        ELSE Dispatch(t, rq, << split_once(name)[1][1] >>, split_once(name)[1][2])
    /\ io' = [io EXCEPT ![t] = {}]
    /\ UNCHANGED << targets, policies, by_name, ndials, emitted, warm >>
    /\ UNCHANGED sseVars

\* Relay::read_resource, relay.rs:93-102: the URI itself is the pool key.
read_resource(t) ==
    /\ pc[t] = "idle"
    /\ \E uri \in ReqUris :
        LET rq == Request("read_resource", uri, "x") IN
        IF ~validate([kind |-> "Resource", id |-> uri], IdentityOf(RelayOf(t)))
        THEN Return(t, rq, Err("invalid_request", "not allowed"), NoLoc)
        ELSE Dispatch(t, rq, << uri >>, uri)
    /\ io' = [io EXCEPT ![t] = {}]
    /\ UNCHANGED << targets, policies, by_name, ndials, emitted, warm >>
    /\ UNCHANGED sseVars

\* ConnectionPool::iter, relay.rs:317-328: the registry is read once, under
\* its lock, into targets; one get future per snapshot entry is then joined.
iter(t, op) ==
    \E snap \in Orders(targets) :
        IF snap = << >>
        THEN Return(t, Request(op, << >>, "x"), Listed(<< >>), NoLoc)
        ELSE Dispatch(t, Request(op, << >>, "x"), snap, << >>)

\* Relay::list_tools, relay.rs:209-214.
list_tools(t) ==
    /\ pc[t] = "idle"
    /\ iter(t, "list_tools")
    /\ io' = [io EXCEPT ![t] = {}]
    /\ ListStarted(t)
    /\ UNCHANGED << targets, policies, by_name, ndials, emitted >>
    /\ UNCHANGED sseVars

\* Relay::list_prompts, relay.rs:152-153.
list_prompts(t) ==
    /\ pc[t] = "idle"
    /\ iter(t, "list_prompts")
    /\ io' = [io EXCEPT ![t] = {}]
    /\ UNCHANGED << targets, policies, by_name, ndials, emitted, warm >>
    /\ UNCHANGED sseVars

\* Relay::list_resources, relay.rs:62-63.
list_resources(t) ==
    /\ pc[t] = "idle"
    /\ iter(t, "list_resources")
    /\ io' = [io EXCEPT ![t] = {}]
    /\ UNCHANGED << targets, policies, by_name, ndials, emitted, warm >>
    /\ UNCHANGED sseVars

\* Relay::list_resource_templates, relay.rs:121-122.
list_resource_templates(t) ==
    /\ pc[t] = "idle"
    /\ iter(t, "list_resource_templates")
    /\ io' = [io EXCEPT ![t] = {}]
    /\ UNCHANGED << targets, policies, by_name, ndials, emitted, warm >>
    /\ UNCHANGED sseVars

\* ------------------------------------------------------------------------
\* ConnectionPool::get and ::connect, one step per suspension point
\* ------------------------------------------------------------------------

\* The locals after the get future for n has produced connection k.
Got(l, n, k) ==
    [l EXCEPT !.get = [@ EXCEPT ![n] = "done"], !.conn = [@ EXCEPT ![n] = k]]

AllGot(l) == \A n \in Range(l.snap) : l.get[n] = "done"

\* get going to the registry and on to connect without looking at by_name.
get_uncached(t, n) ==
    /\ pc[t] = "get"
    /\ n \in Range(loc[t].snap)
    /\ loc[t].get[n] = "init"
    /\ IF n \in targets
       THEN /\ loc' = [loc EXCEPT ![t].get[n] = "connect"]
            /\ UNCHANGED << pc, result >>
       ELSE /\ pc' = [pc EXCEPT ![t] = "done"]
            /\ result' = [result EXCEPT ![t] = Panicked("get")]
            /\ UNCHANGED loc
    /\ ListEnded(t)
    /\ UNCHANGED << targets, policies, by_name, ndials, req, io, emitted >>
    /\ UNCHANGED sseVars

\* get going into connect with the by_name read guard still held.
get_holding(t, n) ==
    /\ pc[t] = "get"
    /\ n \in Range(loc[t].snap)
    /\ loc[t].get[n] = "init"
    /\ LET r == RelayOf(t) IN
       IF ByName(r, n) # 0
       THEN /\ loc' = [loc EXCEPT ![t] = Got(@, n, ByName(r, n))]
            /\ pc' = [pc EXCEPT ![t] = IF AllGot(loc'[t]) THEN "call" ELSE "get"]
            /\ UNCHANGED result
       ELSE IF n \in targets
       THEN /\ loc' = [loc EXCEPT ![t].get[n] = "connect", ![t].rd = @ \cup { n }]
            /\ UNCHANGED << pc, result >>
       ELSE /\ pc' = [pc EXCEPT ![t] = "done"]
            /\ result' = [result EXCEPT ![t] = Panicked("get")]
            /\ UNCHANGED loc
    /\ ListEnded(t)
    /\ UNCHANGED << targets, policies, by_name, ndials, req, io, emitted >>
    /\ UNCHANGED sseVars

\* ConnectionPool::get, relay.rs:285-308.  Under the by_name read lock: a hit
\* returns the cached connection; on a miss the registry is read (its lock
\* taken and released inside the block of relay.rs:292), the read lock is
\* dropped (relay.rs:297) and connect is entered; an unregistered name yields
\* None, which every caller unwraps.  Nothing is awaited between taking the
\* read lock and dropping it, so the step leaves rd as it was.
get(t, n) ==
    /\ pc[t] = "get"
    /\ n \in Range(loc[t].snap)
    /\ loc[t].get[n] = "init"
    /\ LET r == RelayOf(t) IN
       IF ByName(r, n) # 0
       THEN /\ loc' = [loc EXCEPT ![t] = Got(@, n, ByName(r, n))]
            /\ pc' = [pc EXCEPT ![t] = IF AllGot(loc'[t]) THEN "call" ELSE "get"]
            /\ UNCHANGED result
       ELSE IF n \in targets
       THEN /\ loc' = [loc EXCEPT ![t].get[n] = "connect"]
            /\ UNCHANGED << pc, result >>
       ELSE /\ pc' = [pc EXCEPT ![t] = "done"]
            /\ result' = [result EXCEPT ![t] = Panicked("get")]
            /\ UNCHANGED loc
    /\ ListEnded(t)
    /\ UNCHANGED << targets, policies, by_name, ndials, req, io, emitted >>
    /\ UNCHANGED sseVars

\* ConnectionPool::connect, relay.rs:340-359: dial (SSE) or spawn (stdio) the
\* target and run the MCP handshake.  A failure is an Err (or a panic of the
\* spawn's unwrap) that get unwraps at relay.rs:298.
connect(t, n) ==
    /\ pc[t] = "get"
    /\ n \in Range(loc[t].snap)
    /\ loc[t].get[n] = "connect"
    /\ ndials[RelayOf(t)][n] < MaxDials
    /\ io' = [io EXCEPT ![t] = @ \cup { DialEvent(n) }]
    /\ LET r == RelayOf(t) IN
       \E outcome \in { "ok", "failed" } :
         IF outcome = "ok"
         THEN /\ ndials' = [ndials EXCEPT ![r][n] = @ + 1]
              /\ loc' = [loc EXCEPT ![t].get[n] = "insert", ![t].conn[n] = ndials[r][n] + 1]
              /\ UNCHANGED << pc, result >>
         ELSE /\ pc' = [pc EXCEPT ![t] = "done"]
              /\ result' = [result EXCEPT ![t] = Panicked("connect")]
              /\ UNCHANGED << ndials, loc >>
    /\ ListEnded(t)
    /\ UNCHANGED << targets, policies, by_name, req, emitted >>
    /\ UNCHANGED sseVars

\* ConnectionPool::connect, relay.rs:362-365: under the by_name write lock,
\* which is granted when no read guard of the map is held, the new connection
\* is inserted under the target's name, replacing any entry.
insert(t, n) ==
    /\ pc[t] = "get"
    /\ n \in Range(loc[t].snap)
    /\ loc[t].get[n] = "insert"
    /\ \A t2 \in Tasks : RelayOf(t2) = RelayOf(t) => loc[t2].rd = {}
    /\ by_name' = [by_name EXCEPT ![RelayOf(t)][n] = loc[t].conn[n]]
    /\ loc' = [loc EXCEPT ![t].get[n] = "done"]
    /\ pc' = [pc EXCEPT ![t] = IF AllGot(loc'[t]) THEN "call" ELSE "get"]
    /\ UNCHANGED << targets, policies, ndials, req, result, io, emitted, warm >>
    /\ UNCHANGED sseVars


\* ------------------------------------------------------------------------
\* Relay: the upstream calls
\* ------------------------------------------------------------------------

\* What the upstream n answers to a call / get / read of name with args.
UpstreamAnswer(n, method, name, args) ==
    [from |-> n, method |-> method, name |-> name, args |-> args]

\* relay.rs:258-264 (call_tool), 195-201 (get_prompt), 103-113
\* (read_resource): one upstream call on the connection got from the pool,
\* whose Err is unwrapped.
upstream_call(t) ==
    /\ pc[t] = "call"
    /\ req[t].op \in SingleOps
    /\ LET n == loc[t].snap[1]
           k == loc[t].conn[n]
           ev == CallEvent(n, k, req[t].op, loc[t].upname, req[t].args)
       IN  /\ io' = [io EXCEPT ![t] = @ \cup { ev }]
           /\ \E outcome \in { "ok", "failed" } :
                result' = [result EXCEPT ![t] =
                    IF outcome = "ok"
                    THEN Ok(UpstreamAnswer(n, req[t].op, loc[t].upname, req[t].args))
                    ELSE Panicked("call")]
    /\ pc' = [pc EXCEPT ![t] = "done"]
    /\ UNCHANGED << targets, policies, by_name, ndials, req, loc, emitted, warm >>
    /\ UNCHANGED sseVars

\* Relay::list_tools, relay.rs:214-237: the targets are asked one after the
\* other in snapshot order; each tool is renamed to "target:tool".
list_tools_call(t) ==
    /\ pc[t] = "call"
    /\ req[t].op = "list_tools"
    /\ LET i == loc[t].i + 1
           n == loc[t].snap[i]
           ev == CallEvent(n, loc[t].conn[n], "list_tools", << >>, "x")
       IN  /\ io' = [io EXCEPT ![t] = @ \cup { ev }]
           /\ \E outcome \in { "ok", "failed" }, cur \in UpstreamCursors :
                IF outcome = "ok"
                THEN LET tools == loc[t].tools \o Namespaced(n, UpstreamTools(n))
                         cursors == IF cur = None THEN loc[t].cursors
                                    ELSE loc[t].cursors \cup { n }
                     IN
                     /\ loc' = [loc EXCEPT ![t].i = i, ![t].tools = tools,
                                           ![t].cursors = cursors]
                     /\ IF i = Len(loc[t].snap)
                        THEN /\ pc' = [pc EXCEPT ![t] = "done"]
                             /\ result' = [result EXCEPT ![t] = Listed(tools)]
                             /\ emitted' = emitted \cup Range(tools)
                        ELSE UNCHANGED << pc, result, emitted >>
                ELSE /\ pc' = [pc EXCEPT ![t] = "done"]
                     /\ result' = [result EXCEPT ![t] = Panicked("call")]
                     /\ UNCHANGED << loc, emitted >>
    /\ ListEnded(t)
    /\ UNCHANGED << targets, policies, by_name, ndials, req >>
    /\ UNCHANGED sseVars

\* Relay::list_prompts / list_resources / list_resource_templates,
\* relay.rs:63-72, 122-131, 153-162: the future of snapshot entry n takes the
\* read lock of n's upstream handle and sends the list call; join_all polls
\* the futures of all entries, so each gets here while the others wait for
\* their replies.
fanout_acquire(t, n) ==
    /\ pc[t] = "call"
    /\ req[t].op \in ListOps \ { "list_tools" }
    /\ n \in Range(loc[t].snap)
    /\ n \notin loc[t].held
    /\ n \notin DOMAIN loc[t].replies
    /\ loc' = [loc EXCEPT ![t].held = @ \cup { n }]
    /\ io' = [io EXCEPT ![t] = @ \cup { CallEvent(n, loc[t].conn[n], req[t].op, << >>, "x") }]
    /\ UNCHANGED << targets, policies, by_name, ndials, pc, req, result, emitted, warm >>
    /\ UNCHANGED sseVars

\* Relay::list_prompts / list_resources / list_resource_templates,
\* relay.rs:63-85, 122-144, 153-175: the reply of n arrives and n's handle is
\* released; an Err is unwrapped.  The replies are passed on as the upstream
\* gave them, without their cursors, and flattened in snapshot order.
fanout_call(t, n) ==
    /\ pc[t] = "call"
    /\ req[t].op \in ListOps \ { "list_tools" }
    /\ n \in loc[t].held
    /\ \E outcome \in { "ok", "failed" }, cur \in UpstreamCursors :
         IF outcome = "ok"
         THEN LET replies == [m \in DOMAIN loc[t].replies \cup { n } |->
                                 IF m = n THEN UpstreamList(req[t].op, n)
                                 ELSE loc[t].replies[m]]
                  cursors == IF cur = None THEN loc[t].cursors
                             ELSE loc[t].cursors \cup { n }
              IN
              /\ loc' = [loc EXCEPT ![t].replies = replies,
                                    ![t].held = @ \ { n },
                                    ![t].cursors = cursors]
              /\ IF DOMAIN replies = Range(loc[t].snap)
                 THEN /\ pc' = [pc EXCEPT ![t] = "done"]
                      /\ result' = [result EXCEPT ![t] = Listed(Flatten(loc[t].snap, replies))]
                 ELSE UNCHANGED << pc, result >>
         ELSE /\ pc' = [pc EXCEPT ![t] = "done"]
              /\ result' = [result EXCEPT ![t] = Panicked("call")]
              /\ loc' = [loc EXCEPT ![t].held = {}]
    /\ UNCHANGED << targets, policies, by_name, ndials, req, io, emitted, warm >>
    /\ UNCHANGED sseVars

\* The MCP server loop is done with the request: a returned Ok / Err has gone
\* to the client as the response; a panicked task has produced none.
respond(t) ==
    /\ pc[t] = "done"
    /\ pc' = [pc EXCEPT ![t] = "idle"]
    /\ req' = [req EXCEPT ![t] = NoReq]
    /\ loc' = [loc EXCEPT ![t] = NoLoc]
    /\ result' = [result EXCEPT ![t] = NoResult]
    /\ io' = [io EXCEPT ![t] = {}]
    /\ UNCHANGED << targets, policies, by_name, ndials, emitted, warm >>
    /\ UNCHANGED sseVars

\* ------------------------------------------------------------------------
\* The xDS collaborator's updates of the XdsStore
\* ------------------------------------------------------------------------

xds_insert_target(n) ==
    /\ n \notin targets
    /\ targets' = targets \cup { n }
    /\ warm' = [r \in Relays |-> NoWarm]
    /\ UNCHANGED << policies, by_name, ndials, pc, req, loc, result, io, emitted >>
    /\ UNCHANGED sseVars

xds_remove_target(n) ==
    /\ n \in targets
    /\ targets' = targets \ { n }
    /\ warm' = [r \in Relays |-> NoWarm]
    /\ UNCHANGED << policies, by_name, ndials, pc, req, loc, result, io, emitted >>
    /\ UNCHANGED sseVars

xds_set_policies(p) ==
    /\ p # policies
    /\ policies' = p
    /\ UNCHANGED << targets, by_name, ndials, pc, req, loc, result, io, emitted, warm >>
    /\ UNCHANGED sseVars

\* The steps of a handler once it is past its first segment.
pool_step(t) ==
    \/ \E n \in TargetNames \cup ReqUris : get(t, n)
    \/ \E n \in TargetNames : connect(t, n)
    \/ \E n \in TargetNames : insert(t, n)

xds_update ==
    \/ \E n \in TargetNames : xds_insert_target(n)
    \/ \E n \in TargetNames : xds_remove_target(n)
    \/ \E p \in PolicySets : xds_set_policies(p)

\* The routed operations: two concurrent requests of one session.
Next ==
    \/ \E t \in { 1, 2 } : call_tool(t)
    \/ \E t \in { 1, 2 } : get_prompt(t)
    \/ \E t \in { 1, 2 } : read_resource(t)
    \/ \E t \in { 1, 2 } : pool_step(t)
    \/ \E t \in { 1, 2 } : upstream_call(t)
    \/ \E t \in { 1, 2 } : respond(t)
    \/ xds_update

Spec == Init /\ [][Next]_vars

\* The fan-out operations and call_tool, one request at a time.
ListNext ==
    \/ list_tools(1)
    \/ list_prompts(1)
    \/ list_resources(1)
    \/ list_resource_templates(1)
    \/ call_tool(1)
    \/ pool_step(1)
    \/ list_tools_call(1)
    \/ \E n \in TargetNames : fanout_acquire(1, n)
    \/ \E n \in TargetNames : fanout_call(1, n)
    \/ upstream_call(1)
    \/ respond(1)
    \/ xds_update

ListSpec == Init /\ [][ListNext]_vars

\* A run dials a target MaxDials times at most: a request is taken only while
\* the requests in flight, two at most, cannot use the dials up.
DialBudget == \A n \in TargetNames : ndials[1][n] + 2 <= MaxDials

\* iter and get of one pool side by side: a list_tools and a call_tool of one
\* session, with targets being removed from the registry.
PoolNext ==
    \/ DialBudget /\ list_tools(1)
    \/ DialBudget /\ call_tool(2)
    \/ \E t \in { 1, 2 } : pool_step(t)
    \/ list_tools_call(1)
    \/ upstream_call(2)
    \/ \E t \in { 1, 2 } : respond(t)
    \/ \E n \in TargetNames : xds_remove_target(n)

\* The runtime polls every future that can go on, and every dial ends.
PoolFairness == \A t \in { 1, 2 } : WF_vars(pool_step(t))

\* The rules let the session's identity call tools, so that its call_tool
\* gets to the pool.
PoolInit == Init /\ policies # {}

PoolSpec == PoolInit /\ [][PoolNext]_vars /\ PoolFairness

\* Two sessions of different identities, one request at a time in each, over
\* a registry and a rule set that stay as they are.
IsoNext ==
    \/ \E t \in { 1, 3 } : list_tools(t)
    \/ \E t \in { 1, 3 } : call_tool(t)
    \/ \E t \in { 1, 3 } : pool_step(t)
    \/ \E t \in { 1, 3 } : list_tools_call(t)
    \/ \E t \in { 1, 3 } : upstream_call(t)
    \/ \E t \in { 1, 3 } : respond(t)

\* The registry holds one target at most.
IsoInit == Init /\ Cardinality(targets) <= 1

IsoSpec == IsoInit /\ [][IsoNext]_vars

\* ------------------------------------------------------------------------
\* The SSE session bridge (src/src/sse.rs)
\* ------------------------------------------------------------------------

\* The worker of g has left the MCP server loop (or serve_server has failed):
\* the inbound receiver it owned is dropped.
RxDropped(g) == sse[g].st \in { "closing", "exited" }

\* Senders of g's inbound channel that are still alive: the one in the table
\* and the clones POST handlers hold.
HasSender(g) ==
    \/ \E id \in SessionIds : txs[id] = g
    \/ \E p \in Posts : post[p].pc = "send" /\ post[p].tx = g

\* sse_handler, sse.rs:156-195: a random id is drawn, the two channels are
\* made, the inbound sender is put in the table under the id (HashMap::insert
\* replaces an entry the id already has), and the worker is spawned.
sse_handler(g) ==
    /\ sse[g].st = "none"
    /\ \E id \in SessionIds :
        /\ allocated' = allocated \cup { id }
        /\ txs' = [txs EXCEPT ![id] = g]
        /\ sse' = [sse EXCEPT ![g] = [st |-> "init", id |-> id, client |-> "none",
                                      inbound |-> 0, outbound |-> 0]]
    /\ UNCHANGED << post, nposts >>
    /\ UNCHANGED relayVars

\* sse_handler, sse.rs:197-208: the response stream, the endpoint event first,
\* goes to the client.
sse_stream(g) ==
    /\ sse[g].st # "none"
    /\ sse[g].client = "none"
    /\ sse' = [sse EXCEPT ![g].client = "open"]
    /\ UNCHANGED << txs, allocated, post, nposts >>
    /\ UNCHANGED relayVars

\* The client reads one message event from the stream (sse.rs:202-207).
client_recv(g) ==
    /\ sse[g].client = "open"
    /\ sse[g].outbound > 0
    /\ sse' = [sse EXCEPT ![g].outbound = @ - 1]
    /\ UNCHANGED << txs, allocated, post, nposts >>
    /\ UNCHANGED relayVars

\* The client disconnects: the response stream, and with it the outbound
\* receiver (sse.rs:202), is dropped.  Nothing else in sse_handler runs.
client_disconnect(g) ==
    /\ sse[g].client = "open"
    /\ sse' = [sse EXCEPT ![g].client = "closed", ![g].outbound = 0]
    /\ UNCHANGED << txs, allocated, post, nposts >>
    /\ UNCHANGED relayVars

\* What the worker does with one inbound frame: its reply (if the frame has
\* one) goes to the outbound queue; with the outbound receiver dropped the
\* sink fails.  A failed sink and a frame that is an MCP error may end the
\* worker.
Served(g, outcome) ==
    IF outcome = "quit" THEN [sse[g] EXCEPT !.st = "closing", !.inbound = 0]
    ELSE IF outcome = "reply" THEN [sse[g] EXCEPT !.st = "running", !.inbound = @ - 1, !.outbound = @ + 1]
    ELSE [sse[g] EXCEPT !.st = "running", !.inbound = @ - 1]

Outcomes(g) ==
    { "quit", "silent" } \cup
    (IF sse[g].client # "closed" /\ sse[g].outbound < Capacity THEN { "reply" } ELSE {})

\* The worker, sse.rs:176-183: serve_server runs the MCP initialisation on the
\* first inbound frame, and returns Err when it fails.
worker_init(g) ==
    /\ sse[g].st = "init"
    /\ sse[g].inbound > 0
    /\ \E outcome \in Outcomes(g) \ { "silent" } :
        sse' = [sse EXCEPT ![g] = Served(g, outcome)]
    /\ UNCHANGED << txs, allocated, post, nposts >>
    /\ UNCHANGED relayVars

\* The worker, sse.rs:190: the running service takes the next inbound frame.
worker_recv(g) ==
    /\ sse[g].st = "running"
    /\ sse[g].inbound > 0
    /\ \E outcome \in Outcomes(g) :
        sse' = [sse EXCEPT ![g] = Served(g, outcome)]
    /\ UNCHANGED << txs, allocated, post, nposts >>
    /\ UNCHANGED relayVars

\* The worker, sse.rs:176-190: the inbound stream ends, every sender of the
\* channel being dropped; serve_server fails, or waiting() returns.
worker_closed(g) ==
    /\ sse[g].st \in { "init", "running" }
    /\ sse[g].inbound = 0
    /\ ~HasSender(g)
    /\ sse' = [sse EXCEPT ![g].st = "closing"]
    /\ UNCHANGED << txs, allocated, post, nposts >>
    /\ UNCHANGED relayVars

\* The worker, sse.rs:187 and sse.rs:193: app.txs.write().await.remove(&session)
\* removes whatever entry the session's id has.
worker_remove(g) ==
    /\ sse[g].st = "closing"
    /\ txs' = [txs EXCEPT ![sse[g].id] = 0]
    /\ sse' = [sse EXCEPT ![g].st = "exited"]
    /\ UNCHANGED << allocated, post, nposts >>
    /\ UNCHANGED relayVars

\* post_event_handler, sse.rs:133-138: the sender is looked up under the
\* table's read lock and cloned; no entry is 404.
post_lookup(p) ==
    /\ post[p].pc = "idle"
    /\ nposts < MaxPosts
    /\ nposts' = nposts + 1
    /\ \E id \in SessionIds :
        post' = [post EXCEPT ![p] =
                    IF txs[id] = 0
                    THEN [pc |-> "done", id |-> id, tx |-> 0, status |-> 404]
                    ELSE [pc |-> "send", id |-> id, tx |-> txs[id], status |-> 0]]
    /\ UNCHANGED << txs, allocated, sse >>
    /\ UNCHANGED relayVars

\* A send that answers 202 without enqueuing when the queue is full.
post_send_dropping(p) ==
    /\ post[p].pc = "send"
    /\ LET g == post[p].tx IN
       IF RxDropped(g)
       THEN /\ post' = [post EXCEPT ![p].pc = "done", ![p].status = 410]
            /\ UNCHANGED sse
       ELSE /\ sse' = [sse EXCEPT ![g].inbound = IF @ < Capacity THEN @ + 1 ELSE @]
            /\ post' = [post EXCEPT ![p].pc = "done", ![p].status = 202]
    /\ UNCHANGED << txs, allocated, nposts >>
    /\ UNCHANGED relayVars

\* post_event_handler, sse.rs:139-143: tx.send(message).await waits while the
\* queue is full, fails (410) when the receiver is dropped, and otherwise
\* enqueues the frame (202).
post_send(p) ==
    /\ post[p].pc = "send"
    /\ LET g == post[p].tx IN
       IF RxDropped(g)
       THEN /\ post' = [post EXCEPT ![p].pc = "done", ![p].status = 410]
            /\ UNCHANGED sse
       ELSE /\ sse[g].inbound < Capacity
            /\ sse' = [sse EXCEPT ![g].inbound = @ + 1]
            /\ post' = [post EXCEPT ![p].pc = "done", ![p].status = 202]
    /\ UNCHANGED << txs, allocated, nposts >>
    /\ UNCHANGED relayVars

\* The POST's response has gone to the client.
post_done(p) ==
    /\ post[p].pc = "done"
    /\ post' = [post EXCEPT ![p] = NoPost]
    /\ UNCHANGED << txs, allocated, sse, nposts >>
    /\ UNCHANGED relayVars

SseInit == Init /\ targets = TargetNames /\ policies = {}

SseNext ==
    \/ \E g \in Gets : sse_handler(g)
    \/ \E g \in Gets : sse_stream(g)
    \/ \E g \in Gets : client_recv(g)
    \/ \E g \in Gets : client_disconnect(g)
    \/ \E g \in Gets : worker_init(g)
    \/ \E g \in Gets : worker_recv(g)
    \/ \E g \in Gets : worker_closed(g)
    \/ \E g \in Gets : worker_remove(g)
    \/ \E p \in Posts : post_lookup(p)
    \/ \E p \in Posts : post_send(p)
    \/ \E p \in Posts : post_done(p)

\* The tasks of the bridge that the runtime schedules: the workers and the
\* POST handlers past their lookup.  What clients do is not forced.
SseFairness ==
    /\ \A g \in Gets : WF_vars(worker_init(g))
    /\ \A g \in Gets : WF_vars(worker_recv(g))
    /\ \A g \in Gets : WF_vars(worker_closed(g))
    /\ \A g \in Gets : WF_vars(worker_remove(g))
    /\ \A p \in Posts : WF_vars(post_send(p))
    /\ \A p \in Posts : WF_vars(post_done(p))

SseSpec == SseInit /\ [][SseNext]_vars /\ SseFairness

\* A session whose worker is behind: the client has POSTed Backlog frames that
\* the worker has not taken from the inbound queue yet.
Backlog == Capacity - 2

BacklogInit ==
    /\ targets = TargetNames
    /\ policies = {}
    /\ by_name = [r \in Relays |-> [n \in TargetNames |-> 0]]
    /\ ndials = [r \in Relays |-> [n \in TargetNames |-> 0]]
    /\ pc = [t \in Tasks |-> "idle"]
    /\ req = [t \in Tasks |-> NoReq]
    /\ loc = [t \in Tasks |-> NoLoc]
    /\ result = [t \in Tasks |-> NoResult]
    /\ io = [t \in Tasks |-> {}]
    /\ emitted = {}
    /\ warm = [r \in Relays |-> NoWarm]
    /\ post = [p \in Posts |-> NoPost]
    /\ nposts = 0
    /\ txs = [id \in SessionIds |-> IF id = "s1" THEN 1 ELSE 0]
    /\ allocated = { "s1" }
    /\ sse = [g \in Gets |->
                IF g = 1
                THEN [st |-> "running", id |-> "s1", client |-> "open",
                      inbound |-> Backlog, outbound |-> 0]
                ELSE NoSession]

BacklogNext ==
    \/ worker_recv(1)
    \/ worker_remove(1)
    \/ client_recv(1)
    \/ client_disconnect(1)
    \/ \E p \in Posts : post_lookup(p)
    \/ \E p \in Posts : post_send(p)
    \/ \E p \in Posts : post_done(p)

BacklogSpec == BacklogInit /\ [][BacklogNext]_vars

\* ------------------------------------------------------------------------
\* Properties of the pool and the relay
\* ------------------------------------------------------------------------

\* The resource the RBAC check of a request is made for.
ResourceOf(rq) ==
    [kind |-> IF rq.op = "call_tool" THEN "Tool"
              ELSE IF rq.op = "get_prompt" THEN "Prompt" ELSE "Resource",
     id |-> rq.name]

NotAllowed == Err("invalid_request", "not allowed")

\* Task t's handler starts in this step, and the policy engine, as it is when
\* the handler asks it, denies / allows the request's resource.
Starts(t) == pc[t] = "idle" /\ pc'[t] # "idle"
StartsDenied(t) ==
    /\ Starts(t)
    /\ req'[t].op \in SingleOps
    /\ ~validate(ResourceOf(req'[t]), IdentityOf(RelayOf(t)))
StartsAllowed(t) ==
    /\ Starts(t)
    /\ req'[t].op \in SingleOps
    /\ validate(ResourceOf(req'[t]), IdentityOf(RelayOf(t)))

\* C1: concurrent get(name) calls of one pool for a registered name that is
\* not yet in the pool make exactly one dial of the target, and all callers
\* get the same connection.
C1_AtMostOneDial ==
    /\ \A r \in Relays, n \in TargetNames : ndials[r][n] <= 1
    /\ \A t1, t2 \in Tasks :
        \A n \in DOMAIN loc[t1].conn \cap DOMAIN loc[t2].conn :
            (RelayOf(t1) = RelayOf(t2) /\ loc[t1].conn[n] # 0 /\ loc[t2].conn[n] # 0)
                => loc[t1].conn[n] = loc[t2].conn[n]

\* C2: a call_tool, get_prompt or read_resource whose RBAC check denies the
\* resource ends at once, with no upstream I/O (no dial, no call) and with
\* every pool unchanged; a request that has ended does no I/O afterwards.
C2_AuthoriseBeforeDispatch ==
    [][\A t \in Tasks :
          /\ StartsDenied(t) =>
                /\ pc'[t] = "done"
                /\ io'[t] = {}
                /\ by_name' = by_name
                /\ ndials' = ndials
          /\ (pc[t] = "done" /\ pc'[t] = "done") => io'[t] = io[t]]_vars

C2_Witness ==
    \E t \in Tasks :
        /\ pc[t] = "done"
        /\ req[t].op = "call_tool"
        /\ req[t].name = <<"a", ":", "h">>
        /\ result[t] = NotAllowed
        /\ io[t] = {}
        /\ by_name[RelayOf(t)][<<"a">>] # 0

\* C3: every tool U of a registered target S is listed by list_tools as S:U,
\* and an authorised call_tool("S:U", a) is dispatched to the upstream of S,
\* and of no other target, with the tool name U and the arguments a.
C3_NamespacingRoundTrip ==
    \A t \in Tasks :
        /\ (pc[t] = "done" /\ req[t].op = "list_tools" /\ result[t].kind = "ok") =>
              \A S \in Range(loc[t].snap) : \A U \in Range(UpstreamTools(S)) :
                  format_name(S, U) \in Range(result[t].value)
        /\ (req[t].op = "call_tool" /\ req[t].name \in emitted) =>
              \A S \in targets : \A U \in Range(UpstreamTools(S)) :
                  req[t].name = format_name(S, U) =>
                      \A e \in io[t] :
                          e.kind = "call" =>
                              e.target = S /\ e.name = U /\ e.args = req[t].args

OneColon(s) == Cardinality({ i \in 1..Len(s) : s[i] = ":" }) = 1

\* C4: every identifier that list_tools or list_prompts emits is
\* "target:upstream" with exactly one ':', whose prefix is a target of the
\* registry snapshot the listing was made from.
C4_NamespacePurity ==
    \A t \in Tasks :
        (pc[t] = "done" /\ req[t].op \in { "list_tools", "list_prompts" } /\ result[t].kind = "ok") =>
            \A id \in Range(result[t].value) :
                /\ OneColon(id)
                /\ split_once(id)[1][1] \in Range(loc[t].snap)
                /\ split_once(id)[1][2] # << >>

\* C5: whenever the policy engine denies the resource, a call_tool, get_prompt
\* or read_resource returns the error invalid_request "not allowed", whatever
\* the request's name or URI (with no ':' in it, or naming no registered
\* target).
C5_DenyResult ==
    [][\A t \in Tasks : StartsDenied(t) => result'[t] = NotAllowed]_vars

C5_Witness ==
    \E t \in Tasks :
        /\ pc[t] = "done"
        /\ req[t].op = "get_prompt"
        /\ req[t].name = <<"h">>
        /\ policies = {}
        /\ result[t] = NotAllowed

\* C8: an authorised call_tool or get_prompt whose name has no ':' is answered
\* with an invalid-request error, and no upstream is contacted.
C8_MalformedIdentifier ==
    [][\A t \in Tasks :
          (/\ StartsAllowed(t)
           /\ req'[t].op \in { "call_tool", "get_prompt" }
           /\ split_once(req'[t].name) = None)
          => /\ pc'[t] = "done"
             /\ result'[t].kind = "err"
             /\ result'[t].code = "invalid_request"
             /\ io'[t] = {}]_vars

\* pool.get runs for a call_tool of the listed identifier a:h while target a is
\* not in the registry.
GetsUnregistered(t) ==
    /\ pc[t] = "get"
    /\ <<"a", ":", "h">> \in emitted
    /\ req[t].op = "call_tool"
    /\ req[t].name = <<"a", ":", "h">>
    /\ loc[t].get[<<"a">>] = "init"
    /\ <<"a">> \notin targets
    /\ loc'[t] # loc[t] \/ pc'[t] # pc[t]

\* C9: when pool.get runs for an authorised call_tool("a:h", ...), a:h having
\* been listed by a list_tools, while target a is not in the registry, the
\* call_tool ends with the error "unknown target": no panic, no dispatch to
\* a's upstream, cached connection or not.
C9_RemovedTarget ==
    [][\A t \in Tasks :
          GetsUnregistered(t) =>
              /\ pc'[t] = "done"
              /\ result'[t].kind = "err"
              /\ result'[t].msg = "unknown target"]_vars

\* C10: a list operation in which a dial or an upstream list call fails
\* returns an error response (a result value, not a panic of the task), and
\* a list it does return holds the entries of every target of its snapshot.
C10_AtomicListFailure ==
    \A t \in Tasks :
        (pc[t] = "done" /\ req[t].op \in ListOps) =>
            /\ ~(result[t].kind = "panic" /\ result[t].at \in { "connect", "call" })
            /\ result[t].kind = "ok" =>
                  \A S \in Range(loc[t].snap) :
                      \A U \in Range(UpstreamList(req[t].op, S)) :
                          \/ U \in Range(result[t].value)
                          \/ format_name(S, U) \in Range(result[t].value)

\* Where the entries of the i-th snapshot entry start in the merged list: the
\* number of entries the upstreams before it returned.
RECURSIVE Offset(_, _, _)
Offset(op, snap, i) ==
    IF i = 1 THEN 0
    ELSE Offset(op, snap, i - 1) + Len(UpstreamList(op, snap[i - 1]))

\* C11: the list a fan-out list operation returns is the per-target results
\* one after the other in the order of the pool snapshot, each target's
\* entries in the order its upstream returned them (tools renamed to
\* "target:tool"), and its next_cursor is absent whatever cursors the
\* upstreams returned.
C11_MergeOrder ==
    \A t \in Tasks :
        (pc[t] = "done" /\ req[t].op \in ListOps /\ result[t].kind = "ok") =>
            LET op == req[t].op
                snap == loc[t].snap
                value == result[t].value
            IN  /\ result[t].next_cursor = None
                /\ Len(value) = Offset(op, snap, Len(snap) + 1)
                /\ \A i \in 1..Len(snap) :
                      \A j \in 1..Len(UpstreamList(op, snap[i])) :
                          value[Offset(op, snap, i) + j] =
                              IF op = "list_tools"
                              THEN format_name(snap[i], UpstreamList(op, snap[i])[j])
                              ELSE UpstreamList(op, snap[i])[j]

C11_Witness ==
    \E t \in Tasks :
        /\ pc[t] = "done"
        /\ req[t].op = "list_resources"
        /\ loc[t].snap = << <<"a", ":", "b">>, <<"a">> >>
        /\ loc[t].cursors = { <<"a">> }
        /\ result[t] = Listed(<< <<"v">>, <<"w">>, <<"u">> >>)

\* The sequences v and w hold the same entries the same number of times.
SameMultiset(v, w) ==
    /\ Len(v) = Len(w)
    /\ \A e \in Range(v) \cup Range(w) :
          Cardinality({ i \in 1..Len(v) : v[i] = e }) =
          Cardinality({ i \in 1..Len(w) : w[i] = e })

\* Task t's list_tools ends in this step, an earlier list_tools of the session
\* having returned and the registry not having changed since that one began.
SecondListEnds(t) ==
    /\ pc[t] # "done"
    /\ pc'[t] = "done"
    /\ req'[t].op = "list_tools"
    /\ warm[RelayOf(t)].st = "listed"

\* C12: a list_tools that follows a returned list_tools of the same session,
\* with no registry change since the first began, returns the same multiset of
\* entries and dials nothing (the pool does not fail it either); over the two
\* calls each target was dialed once if the pool had no connection for it
\* when the first call began, and not at all otherwise.
C12_IdempotentListing ==
    [][\A t \in Tasks :
          SecondListEnds(t) =>
              LET w == warm[RelayOf(t)] IN
              /\ \A e \in io'[t] : e.kind # "dial"
              /\ result'[t].kind = "panic" => result'[t].at = "call"
              /\ result'[t].kind = "ok" =>
                    /\ SameMultiset(result'[t].value, w.value)
                    /\ \A n \in targets :
                          ndials'[RelayOf(t)][n] - w.base[n] =
                              IF n \in w.cold THEN 1 ELSE 0]_vars

C12_Witness ==
    \E t \in Tasks :
        /\ pc[t] = "done"
        /\ req[t].op = "list_tools"
        /\ result[t].kind = "ok"
        /\ Len(result[t].value) = 3
        /\ warm[RelayOf(t)].st = "listed"
        /\ warm[RelayOf(t)].cold = TargetNames
        /\ SameMultiset(result[t].value, warm[RelayOf(t)].value)
        /\ result[t].value # warm[RelayOf(t)].value
        /\ io[t] # {}
        /\ \A e \in io[t] : e.kind = "call"

\* C13: of two sessions that differ in identity only, over the same registry,
\* rules and upstreams, list_tools returns the same entries to both (the same
\* list for the same snapshot order), while a call_tool is denied exactly when
\* the rules deny the identity of the session it belongs to.
C13_SessionIsolation ==
    [][\A t \in Tasks :
          /\ (Starts(t) /\ req'[t].op = "call_tool") =>
                (result'[t] = NotAllowed <=>
                    ~validate(ResourceOf(req'[t]), IdentityOf(RelayOf(t))))
          /\ \A t2 \in Tasks :
                (/\ RelayOf(t) # RelayOf(t2)
                 /\ pc'[t] = "done" /\ pc'[t2] = "done"
                 /\ req'[t].op = "list_tools" /\ req'[t2].op = "list_tools"
                 /\ result'[t].kind = "ok" /\ result'[t2].kind = "ok")
                => /\ SameMultiset(result'[t].value, result'[t2].value)
                   /\ loc'[t].snap = loc'[t2].snap => result'[t] = result'[t2]]_vars

C13_Witness ==
    /\ warm[1].st = "listed"
    /\ warm[2].st = "listed"
    /\ Len(warm[1].value) = 2
    /\ SameMultiset(warm[1].value, warm[2].value)
    /\ req[1] = Request("call_tool", <<"a", ":", "h">>, "x")
    /\ req[3] = Request("call_tool", <<"a", ":", "h">>, "x")
    /\ pc[1] = "done"
    /\ pc[3] = "done"
    /\ result[1].kind = "ok"
    /\ result[3] = NotAllowed

\* A dial (or handshake) made for task t's request fails in this step.
DialFails(t) ==
    /\ pc[t] = "get"
    /\ io'[t] # io[t]
    /\ ndials' = ndials

\* C16: when the dial or handshake for a target fails inside pool.get, the
\* caller gets the error as a value (the request ends with an error result,
\* its task does not panic), and the failed dial leaves the pool as it was,
\* with no entry put in for the name.
C16_DialFailureRecovery ==
    [][\A t \in Tasks :
          DialFails(t) =>
              /\ pc'[t] = "done" => result'[t].kind = "err"
              /\ by_name' = by_name]_vars

\* C17: a connection dialed for a target while serving one session is the one
\* every other session uses for it: a target one session's requests have
\* dialed is never dialed for another session, and two sessions that hold a
\* connection for the same target hold the same one.
C17_PoolOutlivesSessions ==
    /\ \A n \in TargetNames : \A r1, r2 \in Relays :
          (r1 # r2 /\ ndials[r1][n] >= 1) => ndials[r2][n] = 0
    /\ \A t1, t2 \in Tasks :
          \A n \in DOMAIN loc[t1].conn \cap DOMAIN loc[t2].conn :
              (loc[t1].conn[n] # 0 /\ loc[t2].conn[n] # 0) => RelayOf(t1) = RelayOf(t2)

\* C18: a fan-out list operation works on the targets it read from the
\* registry at its start: a registry update made while it is getting its
\* connections does not make it panic at a get of a snapshot name, and a list
\* it returns covers the targets of its snapshot, each once.
C18_ConsistentSnapshot ==
    \A t \in Tasks :
        (pc[t] = "done" /\ req[t].op \in ListOps) =>
            /\ ~(result[t].kind = "panic" /\ result[t].at = "get")
            /\ result[t].kind = "ok" =>
                  Len(result[t].value) = Offset(req[t].op, loc[t].snap, Len(loc[t].snap) + 1)

\* C19: at every instant a relay operation holds the lock of at most one
\* upstream handle; a list operation takes the next handle only when it has
\* released the one before.
C19_OneHandleAtATime ==
    \A t \in Tasks : Cardinality(loc[t].held) <= 1

\* C20: no get future holds the by_name read guard while it waits for a dial
\* or for the by_name write lock, and so, every dial ending, the pool.get of a
\* request and the gets of an iter all come to an end, whatever the
\* interleaving of the two.
C20_DeadlockFreedom ==
    /\ [](\A t \in Tasks : \A n \in loc[t].rd : loc[t].get[n] \notin { "connect", "insert" })
    /\ \A t \in { 1, 2 } : (pc[t] = "get") ~> (pc[t] # "get")

C20_Witness ==
    /\ pc[1] = "get"
    /\ req[1].op = "list_tools"
    /\ loc[1].snap = << <<"a", ":", "b">>, <<"a">> >>
    /\ loc[1].get[<<"a">>] = "insert"
    /\ pc[2] = "get"
    /\ req[2].op = "call_tool"
    /\ loc[2].snap = << <<"a">> >>
    /\ loc[2].get[<<"a">>] = "connect"

\* ------------------------------------------------------------------------
\* Properties of the SSE session bridge
\* ------------------------------------------------------------------------

\* Every session that was given the id has been torn down: its client has
\* disconnected and its worker has removed the id from the table.
Terminated(id) ==
    /\ \E g \in Gets : sse[g].id = id
    /\ \A g \in Gets : sse[g].id = id => (sse[g].client = "closed" /\ sse[g].st = "exited")

\* C6: a POST for session id X is answered 404 when X was never allocated,
\* 410 when X belonged to a session that has terminated (every POST after the
\* teardown included, and a POST whose send finds the session's queue
\* closed), and 202 exactly when its frame is enqueued.
C6_PostStatus ==
    [][\A p \in Posts :
          /\ (post[p].pc = "idle" /\ post'[p].pc # "idle") =>
                /\ post'[p].id \notin allocated => post'[p].status = 404
                /\ Terminated(post'[p].id) => post'[p].status = 410
          /\ (post[p].pc = "send" /\ post'[p].pc = "done") =>
                /\ RxDropped(post[p].tx) => post'[p].status = 410
                /\ post'[p].status = 202 <=>
                      sse'[post[p].tx].inbound = sse[post[p].tx].inbound + 1]_vars

\* The session table holds g's inbound sender under g's id.
InTable(g) == \E id \in SessionIds : sse[g].id = id /\ txs[id] = g

\* C7: once the client of a session has disconnected, the session's entry is
\* eventually removed from the session table, even when no POST follows and
\* the relay has nothing to send.
C7_SessionTeardown ==
    \A g \in Gets : (sse[g].client = "closed") ~> ~InTable(g)

\* C14: an inbound queue never holds more than 64 frames; a POST whose send
\* finds the queue full and its receiver alive stays in the send; a send that
\* ends answers 202 having put its frame in the queue once, or 410 having
\* found the receiver dropped and put nothing in the queue.
C14_Backpressure ==
    [][/\ \A g \in Gets : sse'[g].inbound <= Capacity
       /\ \A p \in Posts :
             post[p].pc = "send" =>
                 LET g == post[p].tx IN
                 /\ (sse[g].inbound = Capacity /\ ~RxDropped(g)) => post'[p] = post[p]
                 /\ post'[p].pc = "done" =>
                       /\ post'[p].status \in { 202, 410 }
                       /\ post'[p].status = 202 =>
                             sse'[g].inbound = sse[g].inbound + 1
                       /\ post'[p].status = 410 =>
                             RxDropped(g) /\ sse'[g] = sse[g]]_vars

C14_Witness ==
    \E p, q \in Posts :
        /\ post[p].pc = "send"
        /\ sse[post[p].tx].inbound = Capacity
        /\ sse[post[p].tx].st = "running"
        /\ post[q].pc = "done"
        /\ post[q].status = 202
        /\ nposts = MaxPosts

\* The id is in the session table for a session whose worker is running.
Live(id) == txs[id] # 0 /\ sse[txs[id]].st \in { "init", "running" }

\* C15: when sse_handler draws the id of a session that is live, the table's
\* entry for the id stays the live session's inbound sender (the new session
\* does not take the id), so POSTs for the id still reach the live session.
C15_SessionIdCollision ==
    [][\A g \in Gets :
          (sse[g].st = "none" /\ sse'[g].st # "none" /\ Live(sse'[g].id))
              => txs'[sse'[g].id] = txs[sse'[g].id]]_vars

\* The client of g has the endpoint event and g's worker is running.
Announced(g) == sse[g].client = "open" /\ sse[g].st \in { "init", "running" }

\* C21: a session's id is in the session table before its endpoint event goes
\* out, so a POST for the id of a session whose client has the endpoint event
\* and whose worker is running is never answered 404.
C21_RegisterBeforeAnnounce ==
    [][/\ \A g \in Gets :
             (sse[g].client = "none" /\ sse'[g].client = "open") => sse[g].id \in allocated
       /\ \A p \in Posts :
             (post[p].pc = "idle" /\ post'[p].pc # "idle") =>
                 \A g \in Gets :
                     (Announced(g) /\ post'[p].id = sse[g].id) => post'[p].status # 404]_vars

====
